---- MODULE Spec2Model ----
(***************************************************************************)
(* Model of app.py, the multi-dataset Streamlit dashboard.                 *)
(*                                                                         *)
(* The script is re-run from top to bottom on every interaction.  One run  *)
(* loads the selected dataset through the cached load_data, normalizes the *)
(* table, derives the filter options, applies the filters and computes the *)
(* metrics and charts.  Every action below is one complete run.            *)
(*                                                                         *)
(* The tables of the model carry the columns that the filters, the metrics *)
(* and the charts modelled here read.  The charts over other columns (the  *)
(* regional sales of line 154, the age difference of line 421) are left    *)
(* out, their columns being taken as present in the files.                 *)
(***************************************************************************)
EXTENDS Integers, Sequences, FiniteSets, TLC

VARIABLES
    files,              \* csv_path -> the file on disk, or NoFile
    cache,              \* st.cache_data store of load_data: csv_path -> frame, None or NotCached
    selected_dataset,   \* the sidebar selectbox
    chosen,             \* the multiselect widgets of the page: dimension -> chosen set
    stage,              \* how the run ended: "done", "failed" (load) or "raised"
    errors,             \* the st.error messages of the run, in order
    raised,             \* the uncaught exception that ended the run, or "none"
    options,            \* dimension -> candidate list offered by the multiselect
    selected,           \* dimension -> effective selection (after the empty fallback)
    data,               \* the run's table after normalization and derived columns
    df_filtered,        \* the Filtered View of the run
    metrics,            \* label -> value handed to st.metric
    charts              \* chart -> what was handed to the display

vars == <<files, cache, selected_dataset, chosen, stage, errors, raised,
          options, selected, data, df_filtered, metrics, charts>>

-----------------------------------------------------------------------------
(* Bounds of the model *)

\* largest number of data rows of a source file
MaxRows == 2
\* the number of publishers of the file with many publishers
ManyPublishers == 11
\* the most publishers the user picks on that page
MaxPicked == 2

-----------------------------------------------------------------------------
(* pandas values *)

\* the missing value of an object (string) column
NaN == "nan"
\* the missing value of a numeric column (no year, count or amount is negative)
NaNNum == -1
\* a float is a fraction <<numerator, denominator>>; 0/0 is the float NaN
NaNFloat == <<0, 0>>
\* a date is [y, m, d]; NaT is the missing date
NaT == [y |-> 0, m |-> 0, d |-> 0]

\* Python's None, an absent cache entry and an absent source file
None == [none |-> TRUE]
NotCached == [cached |-> FALSE]
NoFile == [exists |-> FALSE]

-----------------------------------------------------------------------------
(* Python and pandas helpers *)

Range(s) == {s[i] : i \in 1..Len(s)}

RECURSIVE SumSeq(_)
SumSeq(s) == IF s = <<>> THEN 0 ELSE Head(s) + SumSeq(Tail(s))

\* insert x into the sequence s, sorted by key, after every element whose key
\* is not greater than the key of x
InsertSorted(x, s, key) ==
    LET p == Cardinality({j \in 1..Len(s) : key[s[j]] <= key[x]})
    IN  SubSeq(s, 1, p) \o <<x>> \o SubSeq(s, p + 1, Len(s))

\* sorted(s, key=...): stable sort by rising key; key maps the elements to integers
SortedBy(s, key) ==
    LET sorted[k \in 0..Len(s)] ==
            IF k = 0 THEN <<>> ELSE InsertSorted(s[k], sorted[k - 1], key)
    IN  sorted[Len(s)]

\* the strings of the model in Python's str order (code points)
StrOrder == <<"Action", "Activision", "Atari", "BEV", "Capcom", "China", "EV sales",
              "EV sales share", "EV stock", "EV stock share", "Electronic Arts", "Europe",
              "Konami", "Microsoft", "Namco", "Nintendo", "Others", "PHEV", "Sega", "Sony",
              "Sports", "THQ", "Ubisoft", "active", "excellent", "good", "innactive",
              "married", "met offline", "met online", "no", "not married">>

StrRank(s) == CHOOSE i \in 1..Len(StrOrder) : StrOrder[i] = s
StrLess(a, b) == StrRank(a) < StrRank(b)

\* sorted() of a list of strings and of a list of integers
SortedStr(s) == SortedBy(s, [x \in Range(s) |-> StrRank(x)])
SortedInt(s) == SortedBy(s, [x \in Range(s) |-> x])

\* Series.unique(): distinct values in order of first appearance
RECURSIVE Unique(_)
Unique(s) ==
    IF s = <<>> THEN <<>>
    ELSE LET u == Unique(SubSeq(s, 1, Len(s) - 1))
             x == s[Len(s)]
         IN  IF x \in Range(u) THEN u ELSE Append(u, x)

\* Series.dropna()
DropNa(s) == SelectSeq(s, LAMBDA x : x # NaN)
DropNaNum(s) == SelectSeq(s, LAMBDA x : x # NaNNum)

\* str.strip(), str.lower() and str.replace(' ', '_') on the strings of the model
StripTable == (" Year" :> "Year") @@ ("Genre " :> "Genre") @@ (" Aktivs" :> "Aktivs")
              @@ (" region" :> "region") @@ ("married " :> "married")
              @@ (" ja " :> "ja") @@ (" 20.12.2019" :> "20.12.2019")
LowerTable == ("Year" :> "year") @@ ("Genre" :> "genre") @@ ("Publisher" :> "publisher")
              @@ ("Global Sales" :> "global sales") @@ ("Global_Sales" :> "global_sales")
              @@ ("Aktivs" :> "aktivs") @@ ("Registrets" :> "registrets")
              @@ ("Izslegts" :> "izslegts")
ReplaceTable == ("global sales" :> "global_sales")

str_strip(s) == IF s \in DOMAIN StripTable THEN StripTable[s] ELSE s
str_lower(s) == IF s \in DOMAIN LowerTable THEN LowerTable[s] ELSE s
str_replace_space(s) == IF s \in DOMAIN ReplaceTable THEN ReplaceTable[s] ELSE s

-----------------------------------------------------------------------------
(* DataFrame: columns, their dtypes, the index labels and the rows *)

EmptyFrame == [columns |-> <<>>, dtypes |-> <<>>, index |-> <<>>, rows |-> <<>>]

NRows(df) == Len(df.rows)
Col(df, name) == CHOOSE i \in 1..Len(df.columns) : df.columns[i] = name
HasCol(df, name) == name \in Range(df.columns)
\* df[name]
Column(df, name) == LET c == Col(df, name) IN [i \in 1..NRows(df) |-> df.rows[i][c]]
Cell(df, i, name) == df.rows[i][Col(df, name)]
Dtype(df, name) == df.dtypes[Col(df, name)]

\* df[mask]
RECURSIVE KeepIdx(_, _)
KeepIdx(n, mask) ==
    IF n = 0 THEN <<>>
    ELSE IF mask[n] THEN Append(KeepIdx(n - 1, mask), n) ELSE KeepIdx(n - 1, mask)

Take(df, mask) ==
    LET keep == KeepIdx(NRows(df), mask)
    IN  [df EXCEPT !.index = [k \in 1..Len(keep) |-> df.index[keep[k]]],
                   !.rows = [k \in 1..Len(keep) |-> df.rows[keep[k]]]]

\* df[name] = values
SetColumn(df, name, values, dtype) ==
    IF HasCol(df, name)
    THEN LET c == Col(df, name)
         IN  [df EXCEPT !.dtypes[c] = dtype,
                        !.rows = [i \in 1..NRows(df) |-> [df.rows[i] EXCEPT ![c] = values[i]]]]
    ELSE [df EXCEPT !.columns = Append(@, name),
                    !.dtypes = Append(@, dtype),
                    !.rows = [i \in 1..NRows(df) |-> Append(df.rows[i], values[i])]]

\* df.columns = names
RenameColumns(df, names) == [df EXCEPT !.columns = names]

\* df.columns.str.strip()
columns_strip(df) == [i \in 1..Len(df.columns) |-> str_strip(df.columns[i])]

\* df.columns.str.lower().str.replace(' ', '_')
columns_lower_replace(df) ==
    [i \in 1..Len(df.columns) |-> str_replace_space(str_lower(df.columns[i]))]

\* pd.read_csv: a text column with rows and no value at all is read as float64
InferDtype(kind, cells) ==
    IF kind = "number" THEN "float64"
    ELSE IF cells # <<>> /\ \A i \in 1..Len(cells) : cells[i] = NaN THEN "float64"
    ELSE "object"

read_csv(file) ==
    [columns |-> file.header,
     dtypes  |-> [c \in 1..Len(file.header) |->
                    InferDtype(file.kinds[c], [i \in 1..Len(file.lines) |-> file.lines[i][c]])],
     index   |-> [i \in 1..Len(file.lines) |-> i],
     rows    |-> file.lines]

\* Series.sum() and Series.mean() skip missing values; the mean of nothing is NaN
Sum(vals) == SumSeq(DropNaNum(vals))
Mean(vals) == LET v == DropNaNum(vals)
              IN  IF v = <<>> THEN NaNFloat ELSE <<SumSeq(v), Len(v)>>

\* f"{x:.2f}": a NaN is formatted as the text nan
FormatFloat(x) == IF x = NaNFloat THEN [text |-> "nan"] ELSE [text |-> "number", value |-> x]
FormatInt(n) == [text |-> "number", value |-> <<n, 1>>]

\* Series.isin(list)
isin(x, list) == x \in Range(list)

\* how many rows of the frame have key in the column
CountOf(df, name, key) == Cardinality({i \in 1..NRows(df) : Cell(df, i, name) = key})

\* Series.value_counts(): <<value, count>> by falling count, missing values dropped
\* (missing is the missing value of the column)
value_counts(df, name, missing) ==
    LET keys == Unique(SelectSeq(Column(df, name), LAMBDA x : x # missing))
        pairs == [k \in 1..Len(keys) |-> <<keys[k], CountOf(df, name, keys[k])>>]
    IN  SortedBy(pairs, [p \in Range(pairs) |-> 0 - p[2]])

\* Series.sort_index() of a Series indexed by year
sort_index(series) == SortedBy(series, [p \in Range(series) |-> p[1]])

\* df.groupby(key)[val].sum(): <<key, sum>> by rising key, missing keys dropped
groupby_sum(df, key, val) ==
    LET keys == SortedStr(Unique(DropNa(Column(df, key))))
        total(k) == Sum(Column(Take(df, [i \in 1..NRows(df) |-> Cell(df, i, key) = k]), val))
    IN  [k \in 1..Len(keys) |-> <<keys[k], total(keys[k])>>]

\* Series.sort_values(ascending=False)
sort_values_desc(series) == SortedBy(series, [p \in Range(series) |-> 0 - p[2]])

\* Series.nlargest(n): the n largest, ties in the order of the series
nlargest(series, n) ==
    LET s == sort_values_desc(series)
    IN  SubSeq(s, 1, IF Len(s) < n THEN Len(s) ELSE n)

\* st.multiselect(options, default=options): the chosen options, in the options' order
multiselect(opts, label, widgets) ==
    IF label \in DOMAIN widgets THEN SelectSeq(opts, LAMBDA x : x \in widgets[label]) ELSE opts

\* the selection without the fallback to every candidate
OrAllNoFallback(sel, opts) == sel

\* "if not selected: selected = options"
OrAll(sel, opts) == IF sel = <<>> THEN opts ELSE sel

-----------------------------------------------------------------------------
(* Configuration *)

dataset_options == <<"Global Video Game Sales", "Micro-enterprise Tax Payers",
                     "How Couples Meet and Stay Together", "Global EV Data Explorer">>

titles_config == [d \in Range(dataset_options) |->
    CASE d = "Global Video Game Sales" -> [file |-> "vgsales.csv"]
      [] d = "Micro-enterprise Tax Payers" -> [file |-> "pdb_munmaksataji_odata.csv"]
      [] d = "How Couples Meet and Stay Together" -> [file |-> "HCMST_ver_3.04.csv"]
      [] d = "Global EV Data Explorer" -> [file |-> "IEA-EV-dataEV salesHistoricalCars.csv"]]

Paths == {titles_config[d].file : d \in Range(dataset_options)}

\* the number of publishers that keep their own bucket
TopN == 10

-----------------------------------------------------------------------------
(* load_data, behind st.cache_data *)

\* one call of the function body: the returned frame (or None) and the st.error
\* messages it wrote, which the cache stores and replays with the value
\* the failure reported twice by the loader
load_data_body_twice(file) ==
    IF file = NoFile
    THEN [ret |-> None, messages |-> <<"Error loading data", "Error loading data">>]
    ELSE [ret |-> RenameColumns(read_csv(file), columns_strip(read_csv(file))), messages |-> <<>>]

load_data_body(file) ==
    IF file = NoFile
    THEN [ret |-> None, messages |-> <<"Error loading data">>]
    ELSE [ret |-> RenameColumns(read_csv(file), columns_strip(read_csv(file))), messages |-> <<>>]

\* the cached call: a hit returns a copy of the stored entry
load_data(csv_path, store) ==
    IF store[csv_path] = NotCached THEN load_data_body(files[csv_path]) ELSE store[csv_path]

-----------------------------------------------------------------------------
(* The outcome of one run of the script *)

NoChart == [kind |-> "none"]

\* the run ended before the page of the dataset was built
Aborted(how, exception, msgs) ==
    [stage |-> how, raised |-> exception, errors |-> msgs, widgets |-> <<>>,
     options |-> <<>>, selected |-> <<>>, data |-> EmptyFrame,
     df_filtered |-> EmptyFrame, metrics |-> <<>>, charts |-> <<>>]

\* the branch taken on the number of years of the view in place of the number
\* of selected years
CountOverTimeByView(view, column, sel) ==
    LET counts == value_counts(view, column, NaNNum)
    IN  IF Len(counts) > 1
        THEN [kind |-> "line", series |-> sort_index(counts)]
        ELSE IF Len(sel) >= 1
        THEN IF counts = <<>>
             THEN [kind |-> "IndexError"]
             ELSE [kind |-> "metric", bucket |-> sel[1], value |-> counts[1][2]]
        ELSE [kind |-> "message", text |-> "Select multiple years to see trend."]

\* the three-way count-over-time chart of the video game and tax pages:
\* a line over the buckets, the count of the single bucket, or the hint
CountOverTime(view, column, sel) ==
    IF Len(sel) > 1
    THEN [kind |-> "line", series |-> sort_index(value_counts(view, column, NaNNum))]
    ELSE IF Len(sel) = 1
    THEN LET counts == value_counts(view, column, NaNNum)
         IN  IF counts = <<>>
             THEN [kind |-> "IndexError"]   \* .iloc[0] of an empty Series
             ELSE [kind |-> "metric", bucket |-> sel[1], value |-> counts[1][2]]
    ELSE [kind |-> "message", text |-> "Select multiple years to see trend."]

-----------------------------------------------------------------------------
(* The filter-and-aggregate shape that every page repeats *)

\* the multiselects of the page: what each returns for the widget state
Picked(opts, widgets) == [dim \in DOMAIN opts |-> multiselect(opts[dim], dim, widgets)]

\* the selections after "if not selected: selected = options"
Effective(picked, opts) == [dim \in DOMAIN opts |-> OrAll(picked[dim], opts[dim])]

\* the page as the run leaves it; out is the outcome of the metrics and charts
Assemble(frame, opts, picked, sel, view, out) ==
    [stage |-> IF out.raised = "none" THEN "done" ELSE "raised",
     raised |-> out.raised,
     errors |-> <<>>,
     widgets |-> [dim \in DOMAIN picked |-> Range(picked[dim])],
     options |-> opts,
     selected |-> sel,
     data |-> frame,
     df_filtered |-> view,
     metrics |-> out.metrics,
     charts |-> out.charts]

\* a chart is drawn unless an earlier statement of the run has raised
Unless(exception, chart) == IF exception = "none" THEN chart ELSE NoChart

-----------------------------------------------------------------------------
(* Global Video Game Sales: lines 86-207 *)

\* lines 87-90
VideoGameNormalize(frame) ==
    RenameColumns(frame, columns_lower_replace(frame))

\* the TopN publishers with the smallest summed sales in place of the largest
top_publishers_smallest(frame) ==
    LET sums == groupby_sum(frame, "publisher", "global_sales")
        low == SortedBy(sums, [p \in Range(sums) |-> p[2]])
    IN  [k \in 1..(IF Len(low) < TopN THEN Len(low) ELSE TopN) |-> low[k][1]]

\* line 107
top_publishers(frame) ==
    LET top == nlargest(groupby_sum(frame, "publisher", "global_sales"), TopN)
    IN  [k \in 1..Len(top) |-> top[k][1]]

\* line 109
Bucket(publisher, top) == IF publisher \in Range(top) THEN publisher ELSE "Others"

PublisherFiltered(frame, top) ==
    SetColumn(frame, "publisher_filtered",
              [i \in 1..NRows(frame) |-> Bucket(Cell(frame, i, "publisher"), top)], "object")

\* lines 97, 102 and 108
VideoGameOptions(frame, top) ==
    [year |-> SortedInt(Unique(DropNaNum(Column(frame, "year")))),
     genre |-> SortedStr(Unique(DropNa(Column(frame, "genre")))),
     publisher |-> SortedStr(Unique(Append(top, "Others")))]

\* the genre test left out when every genre is selected
VideoGameFilterUnlessAll(frame, sel) ==
    Take(frame, [i \in 1..NRows(frame) |->
                    /\ isin(Cell(frame, i, "year"), sel.year)
                    /\ \/ Range(sel.genre) = Range(DropNa(Column(frame, "genre")))
                       \/ isin(Cell(frame, i, "genre"), sel.genre)
                    /\ isin(Cell(frame, i, "publisher_filtered"), sel.publisher)])

\* lines 115-119
VideoGameFilter(frame, sel) ==
    Take(frame, [i \in 1..NRows(frame) |->
                    /\ isin(Cell(frame, i, "year"), sel.year)
                    /\ isin(Cell(frame, i, "genre"), sel.genre)
                    /\ isin(Cell(frame, i, "publisher_filtered"), sel.publisher)])

VideoGameCharts(view, sales, chart3) ==
    [raised |-> IF chart3.kind = "IndexError" THEN "IndexError" ELSE "none",
     metrics |-> [total_sales |-> FormatInt(Sum(sales)),
                  avg_sales_per_game |-> FormatFloat(Mean(sales)),
                  total_games |-> FormatInt(NRows(view))],
     charts |-> [genre_sales |-> [kind |-> "bar", series |->
                        sort_values_desc(groupby_sum(view, "genre", "global_sales"))],
                 games_per_year |-> chart3,
                 publisher_sales |-> Unless(
                        IF chart3.kind = "IndexError" THEN "IndexError" ELSE "none",
                        [kind |-> "bar", series |-> sort_values_desc(
                            groupby_sum(view, "publisher_filtered", "global_sales"))])]]

\* lines 121-207
VideoGameAggregates(view, sel) ==
    VideoGameCharts(view, Column(view, "global_sales"), CountOverTime(view, "year", sel.year))

-----------------------------------------------------------------------------
(* Micro-enterprise Tax Payers: lines 208-337 *)

\* lines 212-217: Series.replace with the dict (the module writes the Latvian
\* a-macron and e-macron of the source as plain a and e)
Recode(status) ==
    CASE status = "ja" -> "active"
      [] status = "ir" -> "active"
      [] status = "ne" -> "innactive"
      [] status = "nav" -> "innactive"
      [] OTHER -> status

\* the day.month.year texts of the model as strptime('%d.%m.%Y') reads them
DateTable == ("05.03.2019" :> [y |-> 2019, m |-> 3, d |-> 5])
             @@ ("01.02.2018" :> [y |-> 2018, m |-> 2, d |-> 1])
             @@ ("15.01.2019" :> [y |-> 2019, m |-> 1, d |-> 15])
             @@ ("10.06.2020" :> [y |-> 2020, m |-> 6, d |-> 10])
             @@ ("20.12.2019" :> [y |-> 2019, m |-> 12, d |-> 20])

\* pd.to_datetime(format='%d.%m.%Y', errors='coerce') of one text
to_datetime(text) == IF text \in DOMAIN DateTable THEN DateTable[text] ELSE NaT

\* Series.dt.year
dt_year(date) == IF date = NaT THEN NaNNum ELSE date.y

\* the day number of a date (days since 1970-01-01)
Ordinal(date) ==
    LET y == IF date.m <= 2 THEN date.y - 1 ELSE date.y
        era == y \div 400
        yoe == y - era * 400
        mp == IF date.m > 2 THEN date.m - 3 ELSE date.m + 9
        doy == (153 * mp + 2) \div 5 + date.d - 1
        doe == yoe * 365 + yoe \div 4 - yoe \div 100 + doy
    IN  era * 146097 + doe - 719468

\* Series.str of a column that does not hold strings raises AttributeError
StrAccessor(frame, name) == Dtype(frame, name) = "object"

\* lines 224-225
TaxYears(frame) ==
    SetColumn(
        SetColumn(frame, "registration_year",
                  [i \in 1..NRows(frame) |-> dt_year(Cell(frame, i, "registrets"))], "float64"),
        "deregistration_year",
        [i \in 1..NRows(frame) |-> dt_year(Cell(frame, i, "izslegts"))], "float64")

\* lines 219-222
TaxDates(frame) ==
    SetColumn(
        SetColumn(frame, "registrets",
                  [i \in 1..NRows(frame) |-> to_datetime(str_strip(Cell(frame, i, "registrets")))],
                  "datetime64"),
        "izslegts",
        [i \in 1..NRows(frame) |-> to_datetime(str_strip(Cell(frame, i, "izslegts")))],
        "datetime64")

\* lines 212-217
TaxStatus(frame) ==
    SetColumn(frame, "aktivs",
              [i \in 1..NRows(frame) |-> Recode(str_strip(Cell(frame, i, "aktivs")))], "object")

\* lines 209-225: the normalized frame, or the exception that ends the run
TaxRenamed(frame) ==
    IF /\ StrAccessor(frame, "aktivs")
       /\ StrAccessor(frame, "registrets")
       /\ StrAccessor(frame, "izslegts")
    THEN [raised |-> "none", frame |-> TaxYears(TaxDates(TaxStatus(frame)))]
    ELSE [raised |-> "AttributeError", frame |-> frame]

TaxNormalize(frame) ==
    TaxRenamed(RenameColumns(frame, columns_lower_replace(frame)))

\* lines 232, 237 and 242
TaxOptions(frame) ==
    [status |-> SortedStr(Unique(DropNa(Column(frame, "aktivs")))),
     registration_year |->
        SortedInt(Unique(DropNaNum(Column(frame, "registration_year")))),
     deregistration_year |->
        SortedInt(Unique(DropNaNum(Column(frame, "deregistration_year"))))]

\* lines 248-251
TaxFilterFirst(frame, sel) ==
    Take(frame, [i \in 1..NRows(frame) |->
                    /\ isin(Cell(frame, i, "aktivs"), sel.status)
                    /\ isin(Cell(frame, i, "registration_year"), sel.registration_year)])

\* lines 252-256
TaxFilterSecond(view, sel) ==
    IF "no" \in Range(sel.status)
    THEN Take(view, [i \in 1..NRows(view) |->
                        \/ Cell(view, i, "aktivs") = "active"
                        \/ /\ Cell(view, i, "aktivs") = "innactive"
                           /\ isin(Cell(view, i, "deregistration_year"),
                                   sel.deregistration_year)])
    ELSE view

TaxFilter(frame, sel) == TaxFilterSecond(TaxFilterFirst(frame, sel), sel)

Where(view, name, value) ==
    Take(view, [i \in 1..NRows(view) |-> Cell(view, i, name) = value])

\* lines 306-319
DeregistrationsOverTime(inactive_df, sel) ==
    IF Len(sel) > 1 /\ NRows(inactive_df) > 0
    THEN [kind |-> "line", series |->
            sort_index(value_counts(inactive_df, "deregistration_year", NaNNum))]
    ELSE IF Len(sel) = 1 /\ NRows(inactive_df) > 0
    THEN LET counts == value_counts(inactive_df, "deregistration_year", NaNNum)
         IN  IF counts = <<>>
             THEN [kind |-> "IndexError"]
             ELSE [kind |-> "metric", bucket |-> sel[1], value |-> counts[1][2]]
    ELSE [kind |-> "message", text |-> "Select multiple years to see trend."]

\* line 326: (izslegts - registrets).dt.days / 365.25, as a fraction
activity_duration(registrets, izslegts) ==
    IF registrets = NaT \/ izslegts = NaT THEN NaNFloat
    ELSE <<4 * (Ordinal(izslegts) - Ordinal(registrets)), 1461>>

\* lines 325-337
DurationOfActivity(inactive_df) ==
    IF NRows(inactive_df) > 0
    THEN [kind |-> "histogram", values |->
            [i \in 1..NRows(inactive_df) |->
                activity_duration(Cell(inactive_df, i, "registrets"),
                                  Cell(inactive_df, i, "izslegts"))]]
    ELSE [kind |-> "message", text |-> "No inactive taxpayers in the filtered data"]

FirstRaised(kinds) ==
    IF \E i \in 1..Len(kinds) : kinds[i] = "IndexError" THEN "IndexError" ELSE "none"

TaxCharts(view, inactive_df, chart2, chart3) ==
    [raised |-> FirstRaised(<<chart2.kind, chart3.kind>>),
     metrics |-> [total_taxpayers |-> FormatInt(NRows(view)),
                  active_taxpayers |-> FormatInt(NRows(Where(view, "aktivs", "active"))),
                  inactive_taxpayers |-> FormatInt(NRows(inactive_df))],
     charts |-> [status_counts |-> [kind |-> "pie", series |->
                                        value_counts(view, "aktivs", NaN)],
                 registrations |-> chart2,
                 deregistrations |-> Unless(FirstRaised(<<chart2.kind>>), chart3),
                 duration |-> Unless(FirstRaised(<<chart2.kind, chart3.kind>>),
                                     DurationOfActivity(inactive_df))]]

TaxInactive(view, inactive_df, sel) ==
    TaxCharts(view, inactive_df,
              CountOverTime(view, "registration_year", sel.registration_year),
              DeregistrationsOverTime(inactive_df, sel.deregistration_year))

\* lines 258-337
TaxAggregates(view, sel) == TaxInactive(view, Where(view, "aktivs", "innactive"), sel)

-----------------------------------------------------------------------------
(* How Couples Meet and Stay Together: lines 339-447 *)

\* pd.crosstab(rows, columns): the counts of the rows that have both values
CrosstabOf(both, rowname, colname) ==
    [index |-> SortedStr(Unique(Column(both, rowname))),
     columns |-> SortedStr(Unique(Column(both, colname))),
     count |-> [r \in Range(Column(both, rowname)) |->
                  [c \in Range(Column(both, colname)) |->
                      Cardinality({i \in 1..NRows(both) :
                          Cell(both, i, rowname) = r /\ Cell(both, i, colname) = c})]]]

crosstab(view, rowname, colname) ==
    CrosstabOf(Take(view, [i \in 1..NRows(view) |->
                              Cell(view, i, rowname) # NaN /\ Cell(view, i, colname) # NaN]),
               rowname, colname)

\* the sum of the whole crosstab in place of the sum of the row
RowSumOfTable(table, r) ==
    SumSeq([k \in 1..(Len(table.index) * Len(table.columns)) |->
        table.count[table.index[((k - 1) % Len(table.index)) + 1]]
                   [table.columns[((k - 1) \div Len(table.index)) + 1]]])

\* the sum of a crosstab row: DataFrame.sum(axis=1)
RowSum(table, r) == SumSeq([k \in 1..Len(table.columns) |-> table.count[r][table.columns[k]]])

\* normalize='index' and .div(sum(axis=1), axis=0), times 100: the share of
\* each column within the row, as a fraction
Percent(table) ==
    [r \in Range(table.index) |->
        [c \in Range(table.columns) |-> <<100 * table.count[r][c], RowSum(table, r)>>]]

\* reset_index().melt(id_vars=...): one <<row key, column key, percentage>>
\* for each pair, the column keys outermost
Melt(table, pct) ==
    [k \in 1..(Len(table.index) * Len(table.columns)) |->
        LET c == table.columns[((k - 1) \div Len(table.index)) + 1]
            r == table.index[((k - 1) % Len(table.index)) + 1]
        IN  <<r, c, pct[r][c]>>]

\* lines 346 (the list is not sorted)
CouplesOptions(frame) ==
    [q24_met_online |-> Unique(DropNa(Column(frame, "q24_met_online")))]

\* line 352
CouplesFilter(frame, sel) ==
    Take(frame, [i \in 1..NRows(frame) |->
                    isin(Cell(frame, i, "q24_met_online"), sel.q24_met_online)])

\* lines 434-447: DataFrame.plot of a frame without columns raises TypeError
MaritalStatus(view, table) ==
    IF table.columns = <<>>
    THEN [kind |-> "TypeError"]
    ELSE [kind |-> "stacked bar", index |-> table.index, columns |-> table.columns,
          percentage |-> Percent(table)]

CouplesCharts(view, quality, marital) ==
    [raised |-> IF marital.kind = "TypeError" THEN "TypeError" ELSE "none",
     metrics |-> [total_couples |-> FormatInt(NRows(view)),
                  avg_duration |-> FormatFloat(Mean(Column(view, "how_long_relationship")))],
     charts |-> [meeting_methods |-> [kind |-> "count", series |->
                        value_counts(view, "q24_met_online", NaN)],
                 quality_pct |-> [kind |-> "grouped bar", rows |->
                        Melt(quality, Percent(quality))],
                 marital_pct |-> marital]]

\* lines 354-447
CouplesAggregates(view, sel) ==
    CouplesCharts(view, crosstab(view, "q24_met_online", "relationship_quality"),
                  IF HasCol(view, "married")
                  THEN MaritalStatus(view, crosstab(view, "q24_met_online", "married"))
                  ELSE [kind |-> "warning", text |-> "No 'married' column found in the data."])

\* line 342
CouplesNormalize(frame) == RenameColumns(frame, columns_strip(frame))

-----------------------------------------------------------------------------
(* Global EV Data Explorer: lines 450-642 *)

\* lines 451-454
EVNormalize(frame) == RenameColumns(frame, columns_lower_replace(frame))

\* lines 463, 469, 475 and 481
EVOptions(frame) ==
    [region |-> SortedStr(Unique(DropNa(Column(frame, "region")))),
     year |-> SortedInt(Unique(DropNaNum(Column(frame, "year")))),
     powertrain |-> SortedStr(Unique(DropNa(Column(frame, "powertrain")))),
     parameter |-> SortedStr(Unique(DropNa(Column(frame, "parameter"))))]

\* lines 487-492
EVFilter(frame, sel) ==
    Take(frame, [i \in 1..NRows(frame) |->
                    /\ isin(Cell(frame, i, "region"), sel.region)
                    /\ isin(Cell(frame, i, "year"), sel.year)
                    /\ isin(Cell(frame, i, "powertrain"), sel.powertrain)
                    /\ isin(Cell(frame, i, "parameter"), sel.parameter)])

\* df[(df['parameter'] == parameter) & (df['unit'] == unit)]
Slice(view, parameter, unit) ==
    Take(view, [i \in 1..NRows(view) |->
                    Cell(view, i, "parameter") = parameter /\ Cell(view, i, "unit") = unit])

\* the sum of the values of the one selected year
YearTotal(slice, year) == Sum(Column(Where(slice, "year", year), "value"))

\* lines 512-530
SalesOverTime(sales_data, sel) ==
    IF NRows(sales_data) > 0 /\ Len(sel) > 1
    THEN [kind |-> "line", frame |-> sales_data]
    ELSE IF Len(sel) = 1
    THEN [kind |-> "metric", bucket |-> sel[1], value |-> YearTotal(sales_data, sel[1])]
    ELSE [kind |-> "message", text |-> "Select multiple years to see trend."]

\* pivot_table(index='year', columns='powertrain', values='value', aggfunc='sum',
\* fill_value=0): <<year, powertrain -> sum>> by rising year
PivotSum(slice) ==
    LET years == SortedInt(Unique(DropNaNum(Column(slice, "year"))))
    IN  [k \in 1..Len(years) |->
            <<years[k], [p \in Range(DropNa(Column(slice, "powertrain"))) |->
                            Sum(Column(Where(Where(slice, "year", years[k]),
                                             "powertrain", p), "value"))]>>]

\* lines 536-551
StockByPowertrain(stock_data, sel) ==
    IF NRows(stock_data) > 0 /\ Len(sel) > 1
    THEN [kind |-> "stacked bar", series |-> PivotSum(stock_data)]
    ELSE IF Len(sel) = 1
    THEN [kind |-> "metric", bucket |-> sel[1], value |-> YearTotal(stock_data, sel[1])]
    ELSE [kind |-> "message", text |-> "Select multiple years to see trend."]

\* lines 565-571: astype(str).str.lower().str.strip().map(region_mapping)
region_mapping(region) ==
    CASE region = "China" -> "China"
      [] region = "Europe" -> "Europe"
      [] OTHER -> NaN

\* lines 556-600: the stock without FCEV in the mapped regions, per year;
\* DataFrame.plot of a frame without columns raises TypeError
StockOverTime(stock_data) ==
    LET stock_df == Take(stock_data, [i \in 1..NRows(stock_data) |->
                            /\ Cell(stock_data, i, "powertrain") # "FCEV"
                            /\ region_mapping(Cell(stock_data, i, "region")) # NaN])
    IN  IF NRows(stock_df) = 0
        THEN [kind |-> "TypeError"]
        ELSE [kind |-> "stacked bar", series |-> PivotSum(stock_df)]

\* lines 606-619
StockShare(stock_share_data) ==
    IF NRows(stock_share_data) > 0
    THEN [kind |-> "histogram", values |-> Column(stock_share_data, "value")]
    ELSE [kind |-> "message", text |-> "No EV stock share data available"]

\* lines 624-642
SalesShare(sales_share_data) ==
    IF NRows(sales_share_data) > 0
    THEN [kind |-> "bar", series |->
            LET regions == SortedStr(Unique(DropNa(Column(sales_share_data, "region"))))
            IN  [k \in 1..Len(regions) |->
                    <<regions[k],
                      Mean(Column(Where(sales_share_data, "region", regions[k]), "value"))>>]]
    ELSE [kind |-> "message", text |-> "No EV sales share data available"]

EVCharts(sales_data, stock_data, sales_share_data, stock_share_data, sel, chart4) ==
    [raised |-> IF chart4.kind = "TypeError" THEN "TypeError" ELSE "none",
     metrics |-> [total_sales |-> FormatInt(Sum(Column(sales_data, "value"))),
                  avg_sales_share |-> FormatFloat(Mean(Column(sales_share_data, "value"))),
                  avg_stock_share |-> FormatFloat(Mean(Column(stock_share_data, "value")))],
     charts |-> [sales_over_time |-> SalesOverTime(sales_data, sel.year),
                 stock_by_powertrain |-> StockByPowertrain(stock_data, sel.year),
                 stock_over_time |-> chart4,
                 stock_share |-> Unless(IF chart4.kind = "TypeError" THEN "TypeError" ELSE "none",
                                        StockShare(stock_share_data)),
                 sales_share |-> Unless(IF chart4.kind = "TypeError" THEN "TypeError" ELSE "none",
                                        SalesShare(sales_share_data))]]

EVSlices(sales_data, stock_data, sales_share_data, stock_share_data, sel) ==
    EVCharts(sales_data, stock_data, sales_share_data, stock_share_data, sel,
             StockOverTime(stock_data))

\* lines 494-642
EVAggregates(view, sel) ==
    EVSlices(Slice(view, "EV sales", "Vehicles"), Slice(view, "EV stock", "Vehicles"),
             Slice(view, "EV sales share", "percent"),
             Slice(view, "EV stock share", "percent"), sel)

-----------------------------------------------------------------------------
(* The pages.  Each step takes the results of the steps before it as         *)
(* arguments.                                                                 *)

\* the "Apply Filters" statement of the dataset's branch
ApplyFilters(dataset, frame, sel) ==
    CASE dataset = dataset_options[1] -> VideoGameFilter(frame, sel)
      [] dataset = dataset_options[2] -> TaxFilter(frame, sel)
      [] dataset = dataset_options[3] -> CouplesFilter(frame, sel)
      [] dataset = dataset_options[4] -> EVFilter(frame, sel)

\* the metrics and charts of the dataset's branch
Aggregates(dataset, view, sel) ==
    CASE dataset = dataset_options[1] -> VideoGameAggregates(view, sel)
      [] dataset = dataset_options[2] -> TaxAggregates(view, sel)
      [] dataset = dataset_options[3] -> CouplesAggregates(view, sel)
      [] dataset = dataset_options[4] -> EVAggregates(view, sel)

Aggregated(dataset, frame, opts, picked, sel, view) ==
    Assemble(frame, opts, picked, sel, view, Aggregates(dataset, view, sel))

Filtered(dataset, frame, opts, picked, sel) ==
    Aggregated(dataset, frame, opts, picked, sel, ApplyFilters(dataset, frame, sel))

Selected(dataset, frame, opts, picked) ==
    Filtered(dataset, frame, opts, picked, Effective(picked, opts))

\* the sidebar filters of the page and everything below them
Sidebar(dataset, frame, opts, widgets) ==
    Selected(dataset, frame, opts, Picked(opts, widgets))

VideoGameBucketed(frame, top, widgets) ==
    Sidebar(dataset_options[1], PublisherFiltered(frame, top), VideoGameOptions(frame, top),
            widgets)

VideoGameNormalized(frame, widgets) == VideoGameBucketed(frame, top_publishers(frame), widgets)

VideoGameSales(loaded, widgets) == VideoGameNormalized(VideoGameNormalize(loaded), widgets)

TaxNormalized(normal, widgets) ==
    IF normal.raised = "none"
    THEN Sidebar(dataset_options[2], normal.frame, TaxOptions(normal.frame), widgets)
    ELSE Aborted("raised", normal.raised, <<>>)

TaxPayers(loaded, widgets) == TaxNormalized(TaxNormalize(loaded), widgets)

CouplesNormalized(frame, widgets) ==
    Sidebar(dataset_options[3], frame, CouplesOptions(frame), widgets)

Couples(loaded, widgets) == CouplesNormalized(CouplesNormalize(loaded), widgets)

EVNormalized(frame, widgets) ==
    Sidebar(dataset_options[4], frame, EVOptions(frame), widgets)

EVData(loaded, widgets) == EVNormalized(EVNormalize(loaded), widgets)

-----------------------------------------------------------------------------
(* One run of the script: lines 78-644 *)

Page(dataset, loaded, widgets) ==
    CASE dataset = "Global Video Game Sales" -> VideoGameSales(loaded, widgets)
      [] dataset = "Micro-enterprise Tax Payers" -> TaxPayers(loaded, widgets)
      [] dataset = "How Couples Meet and Stay Together" -> Couples(loaded, widgets)
      [] dataset = "Global EV Data Explorer" -> EVData(loaded, widgets)

\* lines 78-86, 643-644
Run(dataset, widgets, store) ==
    LET entry == load_data(titles_config[dataset].file, store)
    IN  IF entry.ret # None
        THEN Page(dataset, entry.ret, widgets)
        ELSE Aborted("failed", "none", Append(entry.messages, "Failed to load data."))

\* the cache holding the very table the run works on, with the run's changes
StoredShared(dataset, store) ==
    LET path == titles_config[dataset].file
        entry == load_data(path, store)
    IN  [store EXCEPT ![path] = IF entry.ret = None THEN entry
                                ELSE [entry EXCEPT !.ret = Run(dataset, <<>>, store).data]]

\* the cache after the run
Stored(dataset, store) ==
    LET path == titles_config[dataset].file
    IN  [store EXCEPT ![path] = load_data(path, store)]

\* the run is what the screen shows at the start
Starts(dataset, run) ==
    /\ selected_dataset = dataset
    /\ chosen = run.widgets
    /\ stage = run.stage
    /\ errors = run.errors
    /\ raised = run.raised
    /\ options = run.options
    /\ selected = run.selected
    /\ data = run.data
    /\ df_filtered = run.df_filtered
    /\ metrics = run.metrics
    /\ charts = run.charts

\* the metrics kept from the previous run of the same page
BecomesKeepingMetrics(dataset, run) ==
    /\ selected_dataset' = dataset
    /\ chosen' = run.widgets
    /\ stage' = run.stage
    /\ errors' = run.errors
    /\ raised' = run.raised
    /\ options' = run.options
    /\ selected' = run.selected
    /\ data' = run.data
    /\ df_filtered' = run.df_filtered
    /\ metrics' = IF dataset = selected_dataset /\ DOMAIN metrics # {} /\ DOMAIN run.metrics # {}
                  THEN metrics ELSE run.metrics
    /\ charts' = run.charts

\* the run replaces what the screen shows
Becomes(dataset, run) ==
    /\ selected_dataset' = dataset
    /\ chosen' = run.widgets
    /\ stage' = run.stage
    /\ errors' = run.errors
    /\ raised' = run.raised
    /\ options' = run.options
    /\ selected' = run.selected
    /\ data' = run.data
    /\ df_filtered' = run.df_filtered
    /\ metrics' = run.metrics
    /\ charts' = run.charts

\* one run of the script for the dataset and the widget state
Shows(dataset, widgets) ==
    /\ cache' = Stored(dataset, cache)
    /\ Becomes(dataset, Run(dataset, widgets, cache))
    /\ UNCHANGED files

-----------------------------------------------------------------------------
(* Source files *)

\* every sequence over S of at most n elements
RECURSIVE SeqsUpTo(_, _)
SeqsUpTo(S, n) ==
    IF n = 0 THEN {<<>>}
    ELSE LET shorter == SeqsUpTo(S, n - 1)
         IN  shorter \cup {Append(s, x) : s \in shorter, x \in S}

\* every sequence of at most n rows of the pool, in the pool's order
Tables(pool, n) ==
    {[i \in 1..Len(t) |-> pool[t[i]]] :
        t \in {u \in SeqsUpTo(1..Len(pool), n) : \A i \in 1..Len(u) - 1 : u[i] <= u[i + 1]}}

\* vgsales.csv: Year, Genre, Publisher, Global_Sales
VideoGameRows == <<
    [Year |-> 2001,   Genre |-> "Sports", Publisher |-> "Sega",     Sales |-> 5],
    [Year |-> 2000,   Genre |-> "Action", Publisher |-> "Nintendo", Sales |-> 2],
    [Year |-> 2000,   Genre |-> "Sports", Publisher |-> NaN,        Sales |-> 1],
    [Year |-> NaNNum, Genre |-> "Action", Publisher |-> "Nintendo", Sales |-> 3],
    [Year |-> 2001,   Genre |-> NaN,      Publisher |-> "Sega",     Sales |-> 4] >>

VideoGameFiles ==
    {[exists |-> TRUE,
      header |-> <<" Year", "Genre ", "Publisher", "Global Sales">>,
      kinds  |-> <<"number", "text", "text", "number">>,
      lines  |-> [i \in 1..Len(t) |-> <<t[i].Year, t[i].Genre, t[i].Publisher, t[i].Sales>>]] :
        t \in Tables(VideoGameRows, MaxRows)}

\* vgsales.csv with many publishers: publisher number k has a game that sold k,
\* one of the first two has a second game that sold 20, and one game has no
\* publisher
PublisherNames == <<"Activision", "Atari", "Capcom", "Electronic Arts", "Konami",
                    "Microsoft", "Namco", "Nintendo", "Sega", "Sony", "THQ", "Ubisoft">>

PublisherFiles ==
    {[exists |-> TRUE,
      header |-> <<" Year", "Genre ", "Publisher", "Global Sales">>,
      kinds  |-> <<"number", "text", "text", "number">>,
      lines  |-> [k \in 1..ManyPublishers |-> <<2000, "Action", PublisherNames[k], k>>]
                 \o << <<2000, "Action", PublisherNames[second], 20>>,
                       <<2000, "Action", NaN, 30>> >>] : second \in 1..2}

\* pdb_munmaksataji_odata.csv: Aktivs, Registrets, Izslegts
TaxRows == <<
    <<" ja ", "05.03.2019", NaN>>,
    <<"ne",   "01.02.2018", "10.06.2020">>,
    <<"nav",  "15.01.2019", " 20.12.2019">>,
    <<"ir",   "2019-03-05", NaN>>,
    <<"no",   "01.02.2018", "10.06.2020">>,
    <<NaN,    "15.01.2019", "10.06.2020">>,
    <<"ne",   "05.03.2019", NaN>> >>

TaxFiles ==
    {[exists |-> TRUE,
      header |-> <<" Aktivs", "Registrets", "Izslegts">>,
      kinds  |-> <<"text", "text", "text">>,
      lines  |-> t] : t \in Tables(TaxRows, MaxRows)}

\* HCMST_ver_3.04.csv: q24_met_online, how_long_relationship, relationship_quality
\* and, in one of the two layouts, married.  The order of the rows matters here.
CouplesRows == {
    <<"met online",  5,  "good",      "married">>,
    <<"met offline", 10, "excellent", "not married">>,
    <<"met offline", 3,  "good",      "married">>,
    <<"met online",  4,  NaN,         "married">>,
    <<NaN,           7,  "good",      "not married">> }

CouplesFiles ==
    {[exists |-> TRUE,
      header |-> <<"q24_met_online", "how_long_relationship", "relationship_quality",
                   "married ">>,
      kinds  |-> <<"text", "number", "text", "text">>,
      lines  |-> t] : t \in SeqsUpTo(CouplesRows, MaxRows)}
    \cup
    {[exists |-> TRUE,
      header |-> <<"q24_met_online", "how_long_relationship", "relationship_quality">>,
      kinds  |-> <<"text", "number", "text">>,
      lines  |-> [i \in 1..Len(t) |-> SubSeq(t[i], 1, 3)]] : t \in SeqsUpTo(CouplesRows, MaxRows)}

\* IEA-EV-dataEV salesHistoricalCars.csv: region, year, powertrain, parameter, unit, value
EVRows == <<
    <<"Europe", 2021, "BEV",  "EV sales",       "Vehicles", 30>>,
    <<"China",  2020, "BEV",  "EV sales",       "Vehicles", 50>>,
    <<"China",  2020, "BEV",  "EV sales share", "percent",  5>>,
    <<"China",  2020, "PHEV", "EV stock",       "Vehicles", 70>>,
    <<"China",  2020, "BEV",  "EV stock share", "percent",  2>> >>

EVFiles ==
    {[exists |-> TRUE,
      header |-> <<" region", "year", "powertrain", "parameter", "unit", "value">>,
      kinds  |-> <<"text", "number", "text", "text", "text", "number">>,
      lines  |-> t] : t \in Tables(EVRows, MaxRows)}

FilesOf(dataset) ==
    CASE dataset = "Global Video Game Sales" -> VideoGameFiles
      [] dataset = "Micro-enterprise Tax Payers" -> TaxFiles
      [] dataset = "How Couples Meet and Stay Together" -> CouplesFiles
      [] dataset = "Global EV Data Explorer" -> EVFiles

-----------------------------------------------------------------------------
(* The dashboard *)

Fresh == [p \in Paths |-> NotCached]

\* the source files: one dataset has its file, the others have none
SomeFiles ==
    \E d \in Range(dataset_options) : \E f \in FilesOf(d) \cup {NoFile} :
        files = [p \in Paths |-> IF p = titles_config[d].file THEN f ELSE NoFile]

\* the first run of a fresh process: nothing is cached, the selectbox shows
\* its first option and every widget its default
Init ==
    /\ SomeFiles
    /\ cache = Stored(dataset_options[1], Fresh)
    /\ Starts(dataset_options[1], Run(dataset_options[1], <<>>, Fresh))

\* the user picks a dataset in the sidebar: the page is built with default widgets
SelectDataset(dataset) ==
    /\ dataset # selected_dataset
    /\ Shows(dataset, <<>>)

\* the user adds a value to a multiselect or removes one from it
ChangeSelection(label, value) ==
    /\ label \in DOMAIN chosen
    /\ Shows(selected_dataset,
             [chosen EXCEPT ![label] = IF value \in @ THEN @ \ {value} ELSE @ \cup {value}])

Filters ==
    \E label \in DOMAIN chosen : \E value \in Range(options[label]) :
        ChangeSelection(label, value)

Next ==
    \/ \E d \in Range(dataset_options) : SelectDataset(d)
    \/ Filters

Spec == Init /\ [][Next]_vars

\* a session on one page: the process starts, the user opens the dataset and
\* then works with its filters
InitPage ==
    \E d \in Range(dataset_options) :
        /\ \E f \in FilesOf(d) :
              files = [p \in Paths |-> IF p = titles_config[d].file THEN f ELSE NoFile]
        /\ LET first == Stored(dataset_options[1], Fresh)
           IN  /\ cache = Stored(d, first)
               /\ Starts(d, Run(d, <<>>, first))

SpecPage == InitPage /\ [][Filters]_vars

\* a session on the video game page of a file with more publishers than TopN,
\* in which the user works with the publisher filter
InitPublishers ==
    /\ \E f \in PublisherFiles :
          files = [p \in Paths |-> IF p = titles_config[dataset_options[1]].file
                                   THEN f ELSE NoFile]
    /\ cache = Stored(dataset_options[1], Fresh)
    /\ Starts(dataset_options[1], Run(dataset_options[1], <<>>, Fresh))

\* the user adds or removes one publisher, holding at most MaxPicked of them
PublisherFilter ==
    \E value \in Range(options["publisher"]) :
        /\ Cardinality(IF value \in chosen["publisher"]
                       THEN chosen["publisher"] \ {value}
                       ELSE chosen["publisher"] \cup {value}) <= MaxPicked
        /\ ChangeSelection("publisher", value)

\* the user clears the publisher multiselect with its clear-all button
ClearPublishers ==
    /\ "publisher" \in DOMAIN chosen
    /\ chosen["publisher"] # {}
    /\ Shows(selected_dataset, [chosen EXCEPT !["publisher"] = {}])

NextPublishers == PublisherFilter \/ ClearPublishers

SpecPublishers == InitPublishers /\ [][NextPublishers]_vars

-----------------------------------------------------------------------------
(* Properties *)

VideoGames == dataset_options[1]
Tax == dataset_options[2]
CouplesData == dataset_options[3]
EV == dataset_options[4]

\* the run built the page of the dataset: its widgets, Filtered View and metrics
PageBuilt == stage = "done" \/ raised \in {"IndexError", "TypeError"}

On(dataset) == selected_dataset = dataset /\ PageBuilt

\* the values of a column of the frame
Values(frame, name) == Range(Column(frame, name))

\* C1: on the tax page, when the inactive status is among the selected statuses,
\* an inactive row is in the Filtered View only if its deregistration year is
\* among the selected deregistration years, and an active row that passes the
\* status and registration-year filters is in the view whatever deregistration
\* years are selected.
C1_InactiveRowsMatchDeregistrationYears ==
    (On(Tax) /\ "innactive" \in Range(selected.status)) =>
        /\ \A i \in 1..NRows(df_filtered) :
              Cell(df_filtered, i, "aktivs") = "innactive" =>
                  isin(Cell(df_filtered, i, "deregistration_year"),
                       selected.deregistration_year)
        /\ \A i \in 1..NRows(data) :
              ( /\ Cell(data, i, "aktivs") = "active"
                /\ isin("active", selected.status)
                /\ isin(Cell(data, i, "registration_year"), selected.registration_year) )
              => data.index[i] \in Range(df_filtered.index)

\* C2: for every dimension of the page and whatever the other dimensions hold,
\* the Filtered View of the run with nothing chosen in the dimension is the
\* Filtered View of the run with every candidate value chosen in it.
C2_EmptySelectionMeansAll ==
    \A dim \in DOMAIN chosen :
        Run(selected_dataset, [chosen EXCEPT ![dim] = {}], cache).df_filtered
        = Run(selected_dataset, [chosen EXCEPT ![dim] = Range(options[dim])], cache).df_filtered

\* a dimension with several candidates is cleared, another one is restricted,
\* and rows remain
C2_ClearedDimension ==
    /\ PageBuilt
    /\ NRows(df_filtered) > 0
    /\ \E dim \in DOMAIN chosen :
          /\ chosen[dim] = {}
          /\ Len(options[dim]) >= 2
          /\ \E other \in DOMAIN chosen \ {dim} :
                chosen[other] # {} /\ chosen[other] # Range(options[other])

\* C3: when the Filtered View is empty no aggregate of the run raises; in
\* particular the scalar count of the single selected year does not fail with
\* an IndexError when no row matches.
C3_EmptyViewNeverRaises ==
    (PageBuilt /\ NRows(df_filtered) = 0) => raised # "IndexError"

\* C4: a scalar mean handed to the display is never the NaN of a mean over
\* zero rows: such a mean is shown as an explicit placeholder.
C4_MeanOfNothingIsPlaceholder ==
    \A m \in DOMAIN metrics \cap {"avg_sales_per_game", "avg_duration",
                                  "avg_sales_share", "avg_stock_share"} :
        metrics[m].text # "nan"

\* the count-over-time charts of the page: the chart, the effective selection
\* of its time buckets, the rows it works on and their bucket column
TimeCharts ==
    CASE On(VideoGames) ->
            {[chart |-> charts.games_per_year, sel |-> selected.year,
              slice |-> df_filtered, column |-> "year", gate |-> "none"]}
      [] On(Tax) ->
            {[chart |-> charts.registrations, sel |-> selected.registration_year,
              slice |-> df_filtered, column |-> "registration_year", gate |-> "none"],
             [chart |-> charts.deregistrations, sel |-> selected.deregistration_year,
              slice |-> Where(df_filtered, "aktivs", "innactive"),
              column |-> "deregistration_year", gate |-> "always"]}
      [] On(EV) ->
            {[chart |-> charts.sales_over_time, sel |-> selected.year,
              slice |-> Slice(df_filtered, "EV sales", "Vehicles"),
              column |-> "year", gate |-> "series"],
             [chart |-> charts.stock_by_powertrain, sel |-> selected.year,
              slice |-> Slice(df_filtered, "EV stock", "Vehicles"),
              column |-> "year", gate |-> "series"]}
      [] OTHER -> {}

IsSeries(chart) == chart.kind \in {"line", "stacked bar"}

\* a series is in ascending order of its buckets
Ascending(chart) ==
    "series" \in DOMAIN chart =>
        \A k \in 1..Len(chart.series) - 1 : chart.series[k][1] < chart.series[k + 1][1]

\* C5: the number of selected buckets alone decides the outcome of every
\* count-over-time chart that the run reaches: two or more selected buckets
\* give the series in ascending order of bucket, exactly one gives the scalar,
\* none gives the select-more message.
C5_BucketCountDecides ==
    \A t \in TimeCharts :
        t.chart.kind # "none" =>
            /\ Len(t.sel) >= 2 => IsSeries(t.chart) /\ Ascending(t.chart)
            /\ Len(t.sel) = 1 => t.chart.kind = "metric"
            /\ Len(t.sel) = 0 => t.chart.kind = "message"

\* the charts that count the rows of the Filtered View per year
CountCharts == {t \in TimeCharts : t.gate = "none"}

\* the rows of the view all fall in one year
OneYear(t) == NRows(t.slice) > 0 /\ Cardinality(Values(t.slice, t.column)) = 1

\* C6 as stated: a Filtered View whose rows all fall in one year gives a scalar
\* count equal to its number of rows, whatever years are selected.
C6_OneYearViewGivesRowCount ==
    \A t \in CountCharts :
        (t.chart.kind # "none" /\ OneYear(t)) =>
            t.chart.kind = "metric" /\ t.chart.value = NRows(t.slice)

\* C6 as amended: for a Filtered View whose rows all fall in one year, exactly
\* one selected year gives the scalar count equal to the number of rows of the
\* view, and two or more selected years give the series of that one year with
\* the number of rows as its only count.
C6_OneYearViewBySelection ==
    \A t \in CountCharts :
        (t.chart.kind # "none" /\ OneYear(t)) =>
            /\ Len(t.sel) = 1 =>
                  t.chart.kind = "metric" /\ t.chart.value = NRows(t.slice)
            /\ Len(t.sel) >= 2 =>
                  /\ t.chart.kind = "line"
                  /\ t.chart.series = << <<Cell(t.slice, 1, t.column), NRows(t.slice)>> >>

\* one year is selected and the view has several rows, all of that year
C6_ScalarOfSeveralRows ==
    \E t \in CountCharts :
        t.chart.kind = "metric" /\ Len(t.sel) = 1 /\ NRows(t.slice) >= 2

\* the summed global sales of a publisher over the whole table
SalesOf(publisher) ==
    SumSeq([i \in 1..NRows(data) |->
                IF Cell(data, i, "publisher") = publisher
                THEN Cell(data, i, "global_sales") ELSE 0])

Publishers == Values(data, "publisher") \ {NaN}

\* C7: on the video game page every row has one bucket, which is its own
\* publisher when that is one of the TopN publishers with the largest summed
\* sales and the literal Others when it is not or is missing; at most TopN
\* publishers keep their name; and the buckets partition the Filtered View:
\* the publisher chart has one bar for each bucket of the view and the bars
\* add up every row of the view once.
C7_PublisherBuckets ==
    On(VideoGames) =>
        /\ \A i \in 1..NRows(data) :
              LET p == Cell(data, i, "publisher")
                  b == Cell(data, i, "publisher_filtered")
              IN  \/ /\ b = p
                     /\ p # NaN
                     /\ Cardinality({q \in Publishers : SalesOf(q) > SalesOf(p)}) < TopN
                  \/ /\ b = "Others"
                     /\ \/ p = NaN
                        \/ Cardinality({q \in Publishers \ {p} : SalesOf(q) >= SalesOf(p)})
                              >= TopN
        /\ Cardinality(Values(data, "publisher_filtered") \ {"Others"}) <= TopN
        /\ charts.publisher_sales.kind = "bar" =>
              LET bars == charts.publisher_sales.series
              IN  /\ {bars[k][1] : k \in 1..Len(bars)} = Values(df_filtered, "publisher_filtered")
                  /\ \A j, k \in 1..Len(bars) : bars[j][1] = bars[k][1] => j = k
                  /\ \A k \in 1..Len(bars) :
                        bars[k][2] = SumSeq([i \in 1..NRows(df_filtered) |->
                            IF Cell(df_filtered, i, "publisher_filtered") = bars[k][1]
                            THEN Cell(df_filtered, i, "global_sales") ELSE 0])
                  /\ SumSeq([k \in 1..Len(bars) |-> bars[k][2]])
                        = SumSeq(Column(df_filtered, "global_sales"))

\* a publisher outside the TopN shares the Others bucket with the game that has
\* no publisher, and the view holds that bucket and another one
C7_OverflowBucket ==
    /\ On(VideoGames)
    /\ \E i \in 1..NRows(data) :
          Cell(data, i, "publisher") # NaN /\ Cell(data, i, "publisher_filtered") = "Others"
    /\ Cardinality({i \in 1..NRows(df_filtered) :
                        Cell(df_filtered, i, "publisher_filtered") = "Others"}) >= 2
    /\ Cardinality(Values(df_filtered, "publisher_filtered")) >= 2
    /\ NRows(df_filtered) < NRows(data)

\* the frame load_data returned for the page
Loaded == cache[titles_config[selected_dataset].file].ret

\* C8: normalizing the normalized table of the dataset completes without
\* error and returns the normalized table.
C8_NormalizeTwiceIsNormalizeOnce ==
    PageBuilt =>
        CASE selected_dataset = VideoGames ->
                VideoGameNormalize(VideoGameNormalize(Loaded)) = VideoGameNormalize(Loaded)
          [] selected_dataset = Tax ->
                TaxNormalize(TaxNormalize(Loaded).frame) = TaxNormalize(Loaded)
          [] selected_dataset = CouplesData ->
                CouplesNormalize(CouplesNormalize(Loaded)) = CouplesNormalize(Loaded)
          [] selected_dataset = EV ->
                EVNormalize(EVNormalize(Loaded)) = EVNormalize(Loaded)

\* the plain-categorical dimensions of the page and their source columns
Categorical ==
    CASE On(VideoGames) -> {<<"genre", "genre">>}
      [] On(Tax) -> {<<"status", "aktivs">>}
      [] On(CouplesData) -> {<<"q24_met_online", "q24_met_online">>}
      [] On(EV) -> {<<"region", "region">>, <<"powertrain", "powertrain">>,
                    <<"parameter", "parameter">>}
      [] OTHER -> {}

\* C9: the candidate list of every plain-categorical dimension is in ascending
\* order, holds every distinct value of its source column once and does not
\* hold the missing value.
C9_CandidatesSortedDistinctPresent ==
    \A d \in Categorical :
        LET list == options[d[1]]
        IN  /\ \A k \in 1..Len(list) - 1 : StrLess(list[k], list[k + 1])
            /\ Range(list) = Values(data, d[2]) \ {NaN}

\* the percentages of a meeting method in the long form of the quality chart
QualityShares(rows, method) ==
    SelectSeq(rows, LAMBDA row : row[1] = method)

\* the percentages add up to 100: they share the denominator, which is not
\* zero, and their numerators add up to 100 times it
AddUpTo100(shares) ==
    /\ shares # <<>>
    /\ \A k \in 1..Len(shares) : shares[k][2] = shares[1][2] /\ shares[k][2] > 0
    /\ SumSeq([k \in 1..Len(shares) |-> shares[k][1]]) = 100 * shares[1][2]

\* C10: on the couples page, in both cross-tabulations by meeting method, the
\* percentages of every meeting method of the result add up to 100 over the
\* column keys, and every meeting method of the result has a row in the
\* Filtered View.
C10_CrosstabRowsAddUpTo100 ==
    On(CouplesData) =>
        /\ LET rows == charts.quality_pct.rows
           IN  \A k \in 1..Len(rows) :
                  /\ rows[k][1] \in Values(df_filtered, "q24_met_online")
                  /\ LET mine == QualityShares(rows, rows[k][1])
                     IN  AddUpTo100([j \in 1..Len(mine) |-> mine[j][3]])
        /\ charts.marital_pct.kind = "stacked bar" =>
              LET m == charts.marital_pct
              IN  \A r \in Range(m.index) :
                     /\ r \in Values(df_filtered, "q24_met_online")
                     /\ AddUpTo100([k \in 1..Len(m.columns) |-> m.percentage[r][m.columns[k]]])

\* a meeting method is split over two qualities and over two marital states
C10_SplitMethod ==
    /\ On(CouplesData)
    /\ \E j, k \in 1..Len(charts.quality_pct.rows) :
          LET rows == charts.quality_pct.rows
          IN  /\ rows[j][1] = rows[k][1]
              /\ rows[j][2] # rows[k][2]
              /\ rows[j][3][1] > 0
              /\ rows[k][3][1] > 0
    /\ charts.marital_pct.kind = "stacked bar"
    /\ Len(charts.marital_pct.columns) = 2

\* the source file of the selected dataset cannot be loaded
LoadFails == files[titles_config[selected_dataset].file] = NoFile

\* how many times the message is among the st.error messages of the run
Reported(message) == Cardinality({k \in 1..Len(errors) : errors[k] = message})

\* C11: the run of a dataset whose source file cannot be loaded reports the
\* load failure once, ends in the failed-to-load state with its message as the
\* last thing shown, and builds no filter control, table, metric or chart; a
\* run whose file loads is never in that state.
C11_LoadFailureIsTerminal ==
    /\ LoadFails =>
          /\ stage = "failed"
          /\ raised = "none"
          /\ Reported("Error loading data") = 1
          /\ Reported("Failed to load data.") = 1
          /\ errors[Len(errors)] = "Failed to load data."
          /\ DOMAIN chosen = {} /\ DOMAIN options = {} /\ DOMAIN selected = {}
          /\ DOMAIN metrics = {} /\ DOMAIN charts = {}
          /\ NRows(data) = 0 /\ NRows(df_filtered) = 0
    /\ ~LoadFails => stage # "failed" /\ errors = <<>>

\* the failed dataset is shown again after another dataset was shown: its
\* load is answered by the cache
C11_FailedAgain ==
    /\ LoadFails
    /\ stage = "failed"
    /\ selected_dataset # dataset_options[1]
    /\ \A d \in Range(dataset_options) : cache[titles_config[d].file] # NotCached

\* the inactive rows of the Filtered View, as positions in the view
InactiveRows ==
    SelectSeq([i \in 1..NRows(df_filtered) |-> i],
              LAMBDA i : Cell(df_filtered, i, "aktivs") = "innactive")

\* C12: on the tax page, when the Filtered View has no inactive row the
\* duration chart is the no-data placeholder and no duration is computed; when
\* it has inactive rows the chart holds one duration for each inactive row and
\* for no other row, the span from registration to deregistration in years.
C12_DurationSkippedOrComputed ==
    On(Tax) =>
        /\ InactiveRows = <<>> =>
              charts.duration.kind = "message" /\ "values" \notin DOMAIN charts.duration
        /\ InactiveRows # <<>> =>
              /\ charts.duration.kind = "histogram"
              /\ charts.duration.values =
                    [k \in 1..Len(InactiveRows) |->
                        activity_duration(Cell(df_filtered, InactiveRows[k], "registrets"),
                                          Cell(df_filtered, InactiveRows[k], "izslegts"))]

\* what the screen shows is what the run shows
ShownIs(run) ==
    /\ stage = run.stage
    /\ raised = run.raised
    /\ errors = run.errors
    /\ options = run.options
    /\ selected = run.selected
    /\ data = run.data
    /\ df_filtered = run.df_filtered
    /\ metrics = run.metrics
    /\ charts = run.charts

\* C13: after any sequence of dataset switches and selection changes, the
\* Filtered View, the metrics and the charts on the screen are those of a run
\* that starts with nothing cached, reads the source file of the selected
\* dataset and is given the current selection: nothing of the earlier runs is
\* left in them.
C13_RenderDependsOnTableAndSelection ==
    ShownIs(Run(selected_dataset, chosen, Fresh))

\* a dataset other than the first is shown, its table is served by the cache,
\* and its selection is restricted in two dimensions
C13_AfterSwitchAndSelections ==
    /\ On(selected_dataset)
    /\ selected_dataset # dataset_options[1]
    /\ NRows(df_filtered) > 0
    /\ \E a, b \in DOMAIN chosen :
          /\ a # b
          /\ chosen[a] # Range(options[a]) /\ chosen[a] # {}
          /\ chosen[b] # Range(options[b]) /\ chosen[b] # {}

\* every populated entry of the cache is the outcome of loading its source
\* file, and a load of that source returns the entry
CacheHoldsLoaded ==
    \A p \in Paths :
        cache[p] # NotCached =>
            cache[p] = load_data_body(files[p]) /\ load_data(p, cache) = cache[p]

\* a step leaves every populated entry of the cache as it is
CacheKept ==
    \A p \in Paths : cache[p] # NotCached => cache'[p] = cache[p]

\* C14: the cache is keyed by source file and an entry never changes once it
\* is populated: whatever a run renames, recodes, parses or derives in its
\* table, every entry stays the table as first loaded from its file and every
\* later load of the file returns that table.
C14_CacheNeverChanged == []CacheHoldsLoaded /\ [][CacheKept]_vars

\* a page works on a table it has renamed and extended, in a run after the
\* first one of the page, while the cache holds the table as loaded
C14_RunChangedItsTable ==
    /\ On(selected_dataset)
    /\ Loaded # None
    /\ data.columns # Loaded.columns
    /\ Len(data.columns) > Len(Loaded.columns)
    /\ NRows(data) > 0
    /\ \E dim \in DOMAIN chosen : chosen[dim] # Range(options[dim])

\* the filter dimensions of the video game, couples and EV pages: the widget,
\* the column it filters and whether the column is numeric
FilterDims ==
    CASE On(VideoGames) ->
            {[dim |-> "year", column |-> "year", numeric |-> TRUE],
             [dim |-> "genre", column |-> "genre", numeric |-> FALSE],
             [dim |-> "publisher", column |-> "publisher_filtered", numeric |-> FALSE]}
      [] On(CouplesData) ->
            {[dim |-> "q24_met_online", column |-> "q24_met_online", numeric |-> FALSE]}
      [] On(EV) ->
            {[dim |-> "region", column |-> "region", numeric |-> FALSE],
             [dim |-> "year", column |-> "year", numeric |-> TRUE],
             [dim |-> "powertrain", column |-> "powertrain", numeric |-> FALSE],
             [dim |-> "parameter", column |-> "parameter", numeric |-> FALSE]}
      [] OTHER -> {}

\* the row of the table has no value in the dimension
MissingIn(i, d) == Cell(data, i, d.column) = IF d.numeric THEN NaNNum ELSE NaN

\* the row of the table is in the Filtered View
InView(i) ==
    \E k \in 1..NRows(df_filtered) :
        df_filtered.index[k] = data.index[i] /\ df_filtered.rows[k] = data.rows[i]

\* C15: on the video game, couples and EV pages a row of the table is in the
\* Filtered View exactly when, in every filter dimension, its value is one of
\* the effectively selected values; a row without a value in a filter
\* dimension is not in the view, and the view holds nothing but rows of the
\* table.
C15_RowInViewIffEveryDimensionMatches ==
    FilterDims # {} =>
        /\ \A i \in 1..NRows(data) :
              /\ InView(i) <=>
                    \A d \in FilterDims : Cell(data, i, d.column) \in Range(selected[d.dim])
              /\ (\E d \in FilterDims : MissingIn(i, d)) => ~InView(i)
        /\ Range(df_filtered.index) \subseteq Range(data.index)
        /\ \A j, k \in 1..NRows(df_filtered) :
              df_filtered.index[j] = df_filtered.index[k] => j = k

\* a row without a value in a dimension where every candidate is selected is
\* left out, another dimension is restricted, and a row is in the view
C15_MissingInUnrestricted ==
    /\ NRows(df_filtered) > 0
    /\ \E i \in 1..NRows(data) : \E d, e \in FilterDims :
          /\ MissingIn(i, d)
          /\ Range(selected[d.dim]) = Range(options[d.dim])
          /\ ~InView(i)
          /\ e # d
          /\ Range(selected[e.dim]) # Range(options[e.dim])

====
